---- MODULE Spec2Model ----
(***************************************************************************)
(* Coin selection of rust-bitcoin-coin-selection: the branch-and-bound     *)
(* search (src/src/branch_and_bound.rs), the coin-grinder search           *)
(* (src/src/coin_grinder.rs), single random draw                           *)
(* (src/src/single_random_draw.rs) and the select_coins facade             *)
(* (src/src/lib.rs).                                                       *)
(*                                                                         *)
(* One behaviour is one call of one entry point.  Init chooses the entry   *)
(* point and its arguments; every pass of a search loop is one step.       *)
(* Indices into vectors are 0-based as in the source; At(s, i) reads s[i]. *)
(* Satoshi amounts are scaled down: Amount (u64) ranges over               *)
(* 0..AMOUNT_MAX, SignedAmount (i64) over -SIGNED_MAX-1..SIGNED_MAX.       *)
(***************************************************************************)
EXTENDS Integers, Sequences, FiniteSets, TLC

\* ------------------------------------------------------------------------
\* Scaled numeric universe
\* ------------------------------------------------------------------------
\* SignedAmount::MAX (i64::MAX), scaled.
SIGNED_MAX == 15
\* Amount::MAX (u64::MAX = 2 * i64::MAX + 1).
AMOUNT_MAX == 2 * SIGNED_MAX + 1
\* Amount::MAX_MONEY / SignedAmount::MAX_MONEY (21 * 10^14 sat), scaled.
MAX_MONEY == 8
\* CHANGE_LOWER (50_000 sat), scaled.
CHANGE_LOWER == 2
\* Weight::MAX and the u64 range of fee_rate * weight, scaled.
WEIGHT_MAX == 9999
\* Base weight of a transaction input, in weight units.
TX_IN_BASE_WEIGHT == 160
\* The iteration cap of both searches.
ITERATION_LIMIT == 100000
\* A small stand-in for the cap, so that searches over small pools hit it.
ScaledIterationLimit == 5

\* Bounds of the enumerated inputs.
MaxPool == 3
MaxTarget == 4
MaxChange == 1

\* ------------------------------------------------------------------------
\* Option values and checked arithmetic (bitcoin::Amount / SignedAmount)
\* ------------------------------------------------------------------------
None == [some |-> FALSE, v |-> 0]
Some(x) == [some |-> TRUE, v |-> x]

At(s, i) == s[i + 1]
Last(s) == s[Len(s)]
Front(s) == SubSeq(s, 1, Len(s) - 1)

RECURSIVE SumSeq(_)
SumSeq(s) == IF s = <<>> THEN 0 ELSE Head(s) + SumSeq(Tail(s))

\* An addition that wraps around instead of failing.
wrapping_add(a, b) == Some((a + b) % (AMOUNT_MAX + 1))

checked_add(a, b) == IF a + b > AMOUNT_MAX THEN None ELSE Some(a + b)
checked_sub(a, b) == IF a < b THEN None ELSE Some(a - b)
to_signed(a) == IF a > SIGNED_MAX THEN None ELSE Some(a)
to_unsigned(s) == IF s < 0 THEN None ELSE Some(s)
signed_checked_add(a, b) ==
    IF a + b > SIGNED_MAX \/ a + b < -SIGNED_MAX - 1 THEN None ELSE Some(a + b)
signed_checked_sub(a, b) ==
    IF a - b > SIGNED_MAX \/ a - b < -SIGNED_MAX - 1 THEN None ELSE Some(a - b)

\* A sum that is not checked against Amount::MAX.
unguarded_sum(s) == Some(SumSeq(s))

\* CheckedSum over a sequence of amounts: None as soon as a partial sum
\* (hence the total) exceeds Amount::MAX.
checked_sum(s) == IF SumSeq(s) > AMOUNT_MAX THEN None ELSE Some(SumSeq(s))

\* Amount::unchecked_add / unchecked_sub: panic in a debug build, wrap in a
\* release build.  `wrap` selects the build when the result is out of range.
unchecked_add(a, b, wrap) ==
    IF a + b <= AMOUNT_MAX THEN Some(a + b)
    ELSE IF wrap THEN Some((a + b) % (AMOUNT_MAX + 1)) ELSE None
unchecked_sub(a, b, wrap) ==
    IF a >= b THEN Some(a - b)
    ELSE IF wrap THEN Some((a - b) % (AMOUNT_MAX + 1)) ELSE None

\* FeeRate::fee_wu: fee_rate (sat/kwu) * weight, rounded up; None on overflow.
fee_wu(fee_rate, weight) ==
    IF fee_rate * weight + 999 > WEIGHT_MAX THEN None
    ELSE Some((fee_rate * weight + 999) \div 1000)

\* ------------------------------------------------------------------------
\* WeightedUtxo (lib.rs)
\* ------------------------------------------------------------------------
effective_value(fee_rate, weight, value) ==
    LET fee == fee_wu(fee_rate, weight) IN
    IF ~fee.some THEN None
    ELSE LET signed_input_fee == to_signed(fee.v) IN
         IF ~signed_input_fee.some THEN None
         ELSE LET v == to_signed(value) IN
              IF ~v.some THEN None
              ELSE signed_checked_sub(v.v, signed_input_fee.v)

utxo_effective_value(u, fee_rate) == effective_value(fee_rate, u.weight, u.value)

waste(u, fee_rate, long_term_fee_rate) ==
    LET f == fee_wu(fee_rate, u.weight) IN
    IF ~f.some THEN None
    ELSE LET fee == to_signed(f.v) IN
         IF ~fee.some THEN None
         ELSE LET l == fee_wu(long_term_fee_rate, u.weight) IN
              IF ~l.some THEN None
              ELSE LET lt_fee == to_signed(l.v) IN
                   IF ~lt_fee.some THEN None
                   ELSE signed_checked_sub(fee.v, lt_fee.v)

\* ------------------------------------------------------------------------
\* Return values
\* ------------------------------------------------------------------------
RetNone == [kind |-> "None", iterations |-> 0, utxos |-> <<>>]
RetPanic == [kind |-> "Panic", iterations |-> 0, utxos |-> <<>>]
RetSome(n, us) == [kind |-> "Some", iterations |-> n, utxos |-> us]
NoRet == [kind |-> "Running", iterations |-> 0, utxos |-> <<>>]

\* index_to_utxo_list: the selected projection indices mapped back to the
\* references of the pool (pool positions, 1-based); None for an empty list.
index_to_utxo_list(iterations, index_list, wu) ==
    IF \E k \in 1..Len(index_list) : index_list[k] < 0 \/ index_list[k] >= Len(wu)
    THEN RetPanic
    ELSE IF index_list = <<>> THEN RetNone
    ELSE RetSome(iterations, [k \in 1..Len(index_list) |-> At(wu, index_list[k]).u])

\* ------------------------------------------------------------------------
\* Stable sorts
\* ------------------------------------------------------------------------
\* slice::sort_by_key(|u| u.0): stable, ascending by effective value.
RECURSIVE InsertByKey(_, _)
InsertByKey(x, s) ==
    IF s = <<>> THEN <<x>>
    ELSE IF x.ev < Head(s).ev THEN <<x>> \o s
    ELSE <<Head(s)>> \o InsertByKey(x, Tail(s))

RECURSIVE sort_by_key(_)
sort_by_key(s) ==
    IF s = <<>> THEN <<>> ELSE InsertByKey(Last(s), sort_by_key(Front(s)))

reverse(s) == [k \in 1..Len(s) |-> s[Len(s) + 1 - k]]

\* ------------------------------------------------------------------------
\* State
\* ------------------------------------------------------------------------
VARIABLES
    alg,    \* the entry point called: "bnb", "cg", "srd" or "facade"
    pc,     \* where the call is
    args,   \* the arguments of the call and the iteration cap in force
    b,      \* the locals of select_coins_bnb
    g,      \* the locals of coin_grinder::select_coins
    srd,    \* the locals of select_coins_srd
    bnb,    \* the facade's local `bnb`: what select_coins_bnb returned
    ret,    \* what the entry point returned
    exit    \* the return statement the last function to return left by

vars == <<alg, pc, args, b, g, srd, bnb, ret, exit>>

\* ------------------------------------------------------------------------
\* select_coins_bnb (branch_and_bound.rs)
\* ------------------------------------------------------------------------
\* The locals before the search, lines 160-170.
BnbLocals0 ==
    [iteration |-> 0, index |-> 0, value |-> 0, current_waste |-> 0,
     best_waste |-> MAX_MONEY, index_selection |-> <<>>, best_selection |-> <<>>,
     upper_bound |-> 0, w_utxos |-> <<>>, available_value |-> 0]

\* Lines 175-190: (effective_value, waste, utxo) of every candidate whose
\* effective value and waste are computable and whose effective value is
\* positive, sorted by effective value, descending.
BnbKeeps(u, fee_rate, long_term_fee_rate) ==
    /\ utxo_effective_value(u, fee_rate).some
    /\ waste(u, fee_rate, long_term_fee_rate).some
    /\ utxo_effective_value(u, fee_rate).v > 0

BnbProjection(pool, fee_rate, long_term_fee_rate) ==
    LET kept == SelectSeq([k \in 1..Len(pool) |-> k],
                          LAMBDA k : BnbKeeps(pool[k], fee_rate, long_term_fee_rate))
        tuples == [j \in 1..Len(kept) |->
                     [ev |-> utxo_effective_value(pool[kept[j]], fee_rate).v,
                      waste |-> waste(pool[kept[j]], fee_rate, long_term_fee_rate).v,
                      u |-> kept[j]]]
    IN reverse(sort_by_key(tuples))

\* The backtrack test without its upper bound (line 218 left out).
BnbMustBacktrackUnbounded(l, a, sum) ==
    \/ sum < a.target
    \/ (l.current_waste > l.best_waste /\ a.fee_rate > a.long_term_fee_rate)

\* The backtrack test without the look at what is left (line 206 left out).
BnbMustBacktrackIgnoringRest(l, a, sum) ==
    \/ l.value > l.upper_bound
    \/ (l.current_waste > l.best_waste /\ a.fee_rate > a.long_term_fee_rate)

\* The backtrack test with a waste bound that ignores the fee rates.
BnbMustBacktrackOnWasteAlways(l, a, sum) ==
    \/ sum < a.target
    \/ l.value > l.upper_bound
    \/ l.current_waste > l.best_waste

\* Lines 206-223: the three reasons to backtrack without scoring.
BnbMustBacktrack(l, a, sum) ==
    \/ sum < a.target
    \/ l.value > l.upper_bound
    \/ (l.current_waste > l.best_waste /\ a.fee_rate > a.long_term_fee_rate)

\* A comparison that lets every scored selection replace the best one.
BnbImprovesAlways(score, best_waste) == TRUE

\* A comparison that keeps the first of two selections with the same score.
BnbImprovesStrictly(score, best_waste) == score < best_waste

\* Line 239: is the scored selection at least as good as the best one?
BnbImproves(score, best_waste) == score <= best_waste

\* A scoring that leaves the excess in current_waste (line 244 left out).
BnbRecordKeepingExcess(l, a) ==
    LET v == to_signed(l.value)
        t == to_signed(a.target)
    IN IF ~v.some \/ ~t.some THEN [ok |-> FALSE, l |-> l]
       ELSE LET w == signed_checked_sub(v.v, t.v) IN
            IF ~w.some THEN [ok |-> FALSE, l |-> l]
            ELSE LET scored == signed_checked_add(l.current_waste, w.v) IN
                 IF ~scored.some THEN [ok |-> FALSE, l |-> l]
                 ELSE [ok |-> TRUE,
                       l |-> IF BnbImproves(scored.v, l.best_waste)
                             THEN [l EXCEPT !.best_selection = l.index_selection,
                                            !.best_waste = scored.v,
                                            !.current_waste = scored.v]
                             ELSE [l EXCEPT !.current_waste = scored.v]]

\* Lines 229-245: score the selection that reached the target and record it
\* when it is no worse than the best.  [ok, l]: ok is FALSE when a `?` returns.
BnbRecord(l, a) ==
    LET v == to_signed(l.value)
        t == to_signed(a.target)
    IN IF ~v.some \/ ~t.some THEN [ok |-> FALSE, l |-> l]
       ELSE LET w == signed_checked_sub(v.v, t.v) IN
            IF ~w.some THEN [ok |-> FALSE, l |-> l]
            ELSE LET scored == signed_checked_add(l.current_waste, w.v) IN
                 IF ~scored.some THEN [ok |-> FALSE, l |-> l]
                 ELSE LET l1 == IF BnbImproves(scored.v, l.best_waste)
                                THEN [l EXCEPT !.best_selection = l.index_selection,
                                               !.best_waste = scored.v,
                                               !.current_waste = scored.v]
                                ELSE [l EXCEPT !.current_waste = scored.v]
                          back == signed_checked_sub(l1.current_waste, w.v)
                      IN IF ~back.some THEN [ok |-> FALSE, l |-> l1]
                         ELSE [ok |-> TRUE, l |-> [l1 EXCEPT !.current_waste = back.v]]

\* A backtrack that also gives the deselected candidate back to
\* available_value.
BnbBacktrackRestoringLast(l) ==
    LET last == Last(l.index_selection)
        \* index after the loop: the loop decrements at least once
        idx == IF l.index - 1 <= last THEN l.index - 1 ELSE last
        restored == SumSeq([j \in 1..(l.index - 1 - last) |->
                              IF last + j < Len(l.w_utxos) THEN At(l.w_utxos, last + j).ev ELSE 0])
    IN IF l.index = 0 THEN [k |-> "panic", l |-> l]
       ELSE IF l.index - 1 > last /\ l.index - 1 >= Len(l.w_utxos) THEN [k |-> "panic", l |-> l]
       ELSE IF l.available_value + restored > AMOUNT_MAX THEN [k |-> "panic", l |-> l]
       ELSE IF idx # last \/ idx >= Len(l.w_utxos) THEN [k |-> "panic", l |-> l]
       ELSE LET cw == signed_checked_sub(l.current_waste, At(l.w_utxos, idx).waste)
                val == checked_sub(l.value, At(l.w_utxos, idx).ev)
            IN IF ~cw.some \/ ~val.some THEN [k |-> "arith", l |-> l]
               ELSE [k |-> "next",
                     l |-> [l EXCEPT !.index = idx,
                                     !.available_value = l.available_value + restored + At(l.w_utxos, idx).ev,
                                     !.current_waste = cw.v,
                                     !.value = val.v,
                                     !.index_selection = Front(l.index_selection)]]

\* A backtrack that leaves the deselected index in index_selection (line 267
\* left out).
BnbBacktrackWithoutPop(l) ==
    LET last == Last(l.index_selection)
        \* index after the loop: the loop decrements at least once
        idx == IF l.index - 1 <= last THEN l.index - 1 ELSE last
        restored == SumSeq([j \in 1..(l.index - 1 - last) |->
                              IF last + j < Len(l.w_utxos) THEN At(l.w_utxos, last + j).ev ELSE 0])
    IN IF l.index = 0 THEN [k |-> "panic", l |-> l]
       ELSE IF l.index - 1 > last /\ l.index - 1 >= Len(l.w_utxos) THEN [k |-> "panic", l |-> l]
       ELSE IF l.available_value + restored > AMOUNT_MAX THEN [k |-> "panic", l |-> l]
       ELSE IF idx # last \/ idx >= Len(l.w_utxos) THEN [k |-> "panic", l |-> l]
       ELSE LET cw == signed_checked_sub(l.current_waste, At(l.w_utxos, idx).waste)
                val == checked_sub(l.value, At(l.w_utxos, idx).ev)
            IN IF ~cw.some \/ ~val.some THEN [k |-> "arith", l |-> l]
               ELSE [k |-> "next",
                     l |-> [l EXCEPT !.index = idx,
                                     !.available_value = l.available_value + restored,
                                     !.current_waste = cw.v,
                                     !.value = val.v]]

\* Lines 252-267: walk the cursor back to the last selected index, giving the
\* skipped candidates back to available_value, then deselect it.
\* k is "next", "arith" (a `?` returned None) or "panic".
BnbBacktrack(l) ==
    LET last == Last(l.index_selection)
        \* index after the loop: the loop decrements at least once
        idx == IF l.index - 1 <= last THEN l.index - 1 ELSE last
        restored == SumSeq([j \in 1..(l.index - 1 - last) |->
                              IF last + j < Len(l.w_utxos) THEN At(l.w_utxos, last + j).ev ELSE 0])
    IN IF l.index = 0 THEN [k |-> "panic", l |-> l]
       ELSE IF l.index - 1 > last /\ l.index - 1 >= Len(l.w_utxos) THEN [k |-> "panic", l |-> l]
       ELSE IF l.available_value + restored > AMOUNT_MAX THEN [k |-> "panic", l |-> l]
       ELSE IF idx # last \/ idx >= Len(l.w_utxos) THEN [k |-> "panic", l |-> l]
       ELSE LET cw == signed_checked_sub(l.current_waste, At(l.w_utxos, idx).waste)
                val == checked_sub(l.value, At(l.w_utxos, idx).ev)
            IN IF ~cw.some \/ ~val.some THEN [k |-> "arith", l |-> l]
               ELSE [k |-> "next",
                     l |-> [l EXCEPT !.index = idx,
                                     !.available_value = l.available_value + restored,
                                     !.current_waste = cw.v,
                                     !.value = val.v,
                                     !.index_selection = Front(l.index_selection)]]

\* An inclusion branch without the omission of equal siblings.
BnbTakesAlways(l) == TRUE

\* Lines 280-284: the candidate at the cursor is taken unless the previous
\* candidate was left out and has the same effective value.
BnbTakes(l) ==
    \/ l.index_selection = <<>>
    \/ l.index - 1 = Last(l.index_selection)
    \/ At(l.w_utxos, l.index).ev # At(l.w_utxos, l.index - 1).ev

\* An inclusion branch that pushes the cursor after advancing it.
BnbIncludeAfterAdvance(l, wrap) ==
    IF l.index >= Len(l.w_utxos) THEN [k |-> "panic", l |-> l]
    ELSE LET eff_value == At(l.w_utxos, l.index).ev
             utxo_waste == At(l.w_utxos, l.index).waste
             av == unchecked_sub(l.available_value, eff_value, wrap)
         IN IF ~av.some THEN [k |-> "panic", l |-> l]
            ELSE LET l1 == [l EXCEPT !.available_value = av.v] IN
                 IF ~BnbTakes(l1) THEN [k |-> "next", l |-> l1]
                 ELSE LET cw == signed_checked_add(l1.current_waste, utxo_waste)
                          val == unchecked_add(l1.value, eff_value, wrap)
                      IN IF ~cw.some THEN [k |-> "arith", l |-> l1]
                         ELSE IF ~val.some THEN [k |-> "panic", l |-> l1]
                         ELSE [k |-> "next",
                               l |-> [l1 EXCEPT !.index_selection = Append(l1.index_selection, l1.index + 1),
                                                !.current_waste = cw.v,
                                                !.value = val.v]]

\* Lines 271-292: the inclusion branch.
BnbInclude(l, wrap) ==
    IF l.index >= Len(l.w_utxos) THEN [k |-> "panic", l |-> l]
    ELSE LET eff_value == At(l.w_utxos, l.index).ev
             utxo_waste == At(l.w_utxos, l.index).waste
             av == unchecked_sub(l.available_value, eff_value, wrap)
         IN IF ~av.some THEN [k |-> "panic", l |-> l]
            ELSE LET l1 == [l EXCEPT !.available_value = av.v] IN
                 IF ~BnbTakes(l1) THEN [k |-> "next", l |-> l1]
                 ELSE LET cw == signed_checked_add(l1.current_waste, utxo_waste)
                          val == unchecked_add(l1.value, eff_value, wrap)
                      IN IF ~cw.some THEN [k |-> "arith", l |-> l1]
                         ELSE IF ~val.some THEN [k |-> "panic", l |-> l1]
                         ELSE [k |-> "next",
                               l |-> [l1 EXCEPT !.index_selection = Append(l1.index_selection, l1.index),
                                                !.current_waste = cw.v,
                                                !.value = val.v]]

\* A pass that counts an iteration only when it does not backtrack.
BnbPassCountingInclusions(l, a, wrap) ==
    LET sum == unchecked_add(l.available_value, l.value, wrap) IN
    IF ~sum.some THEN [k |-> "panic", l |-> l]
    ELSE LET must == BnbMustBacktrack(l, a, sum.v)
             hit == ~must /\ l.value >= a.target
             rec == IF hit THEN BnbRecord(l, a) ELSE [ok |-> TRUE, l |-> l]
         IN IF ~rec.ok THEN [k |-> "arith", l |-> rec.l]
            ELSE LET step == IF must \/ hit
                             THEN IF rec.l.index_selection = <<>>
                                  THEN [k |-> "exhausted", l |-> rec.l]
                                  ELSE BnbBacktrack(rec.l)
                             ELSE BnbInclude(rec.l, wrap)
                 IN IF step.k # "next" THEN step
                    ELSE [k |-> "next",
                          l |-> [step.l EXCEPT !.index = step.l.index + 1,
                                               !.iteration = IF must \/ hit
                                                             THEN step.l.iteration
                                                             ELSE step.l.iteration + 1]]

\* One pass of the loop, lines 199-297.
\* k is "next", "exhausted" (line 249), "arith" or "panic".
BnbPass(l, a, wrap) ==
    LET sum == unchecked_add(l.available_value, l.value, wrap) IN
    IF ~sum.some THEN [k |-> "panic", l |-> l]
    ELSE LET must == BnbMustBacktrack(l, a, sum.v)
             hit == ~must /\ l.value >= a.target
             rec == IF hit THEN BnbRecord(l, a) ELSE [ok |-> TRUE, l |-> l]
         IN IF ~rec.ok THEN [k |-> "arith", l |-> rec.l]
            ELSE LET step == IF must \/ hit
                             THEN IF rec.l.index_selection = <<>>
                                  THEN [k |-> "exhausted", l |-> rec.l]
                                  ELSE BnbBacktrack(rec.l)
                             ELSE BnbInclude(rec.l, wrap)
                 IN IF step.k # "next" THEN step
                    ELSE [k |-> "next",
                          l |-> [step.l EXCEPT !.index = step.l.index + 1,
                                               !.iteration = step.l.iteration + 1]]

\* Can an unchecked operation of this pass leave the range of Amount?
BnbMayWrap(l) ==
    \/ l.available_value + l.value > AMOUNT_MAX
    \/ /\ l.index < Len(l.w_utxos)
       /\ \/ l.available_value < At(l.w_utxos, l.index).ev
          \/ l.value + At(l.w_utxos, l.index).ev > AMOUNT_MAX

\* A setup that lets a zero target into the search (the second test of line
\* 194 left out).
BnbSetupWithoutZeroTest(a) ==
    LET upper_bound == checked_add(a.target, a.cost_of_change)
        w_utxos == BnbProjection(a.weighted_utxos, a.fee_rate, a.long_term_fee_rate)
        available_value == checked_sum([k \in 1..Len(w_utxos) |-> w_utxos[k].ev])
    IN IF ~upper_bound.some THEN [k |-> "upper_bound_overflow", l |-> BnbLocals0]
       ELSE IF ~available_value.some THEN [k |-> "sum_overflow", l |-> BnbLocals0]
       ELSE LET l == [BnbLocals0 EXCEPT !.upper_bound = upper_bound.v,
                                        !.w_utxos = w_utxos,
                                        !.available_value = available_value.v]
            IN IF available_value.v < a.target
               THEN [k |-> "insufficient", l |-> l]
               ELSE [k |-> "loop", l |-> l]

\* Lines 172-196: everything before the loop.  [k, l]: k is "loop" or the
\* return taken.
BnbSetup(a) ==
    LET upper_bound == checked_add(a.target, a.cost_of_change)
        w_utxos == BnbProjection(a.weighted_utxos, a.fee_rate, a.long_term_fee_rate)
        available_value == checked_sum([k \in 1..Len(w_utxos) |-> w_utxos[k].ev])
    IN IF ~upper_bound.some THEN [k |-> "upper_bound_overflow", l |-> BnbLocals0]
       ELSE IF ~available_value.some THEN [k |-> "sum_overflow", l |-> BnbLocals0]
       ELSE LET l == [BnbLocals0 EXCEPT !.upper_bound = upper_bound.v,
                                        !.w_utxos = w_utxos,
                                        !.available_value = available_value.v]
            IN IF available_value.v < a.target \/ a.target = 0
               THEN [k |-> "insufficient", l |-> l]
               ELSE [k |-> "loop", l |-> l]

\* A return that gives up the recorded best when the cap is hit.
BnbRetNoneOnLimit(k, l) ==
    CASE k = "exhausted" -> index_to_utxo_list(l.iteration, l.best_selection, l.w_utxos)
      [] k = "panic" -> RetPanic
      [] OTHER -> RetNone

\* What select_coins_bnb returns when it leaves by k.
BnbRet(k, l) ==
    CASE k \in {"exhausted", "limit"} -> index_to_utxo_list(l.iteration, l.best_selection, l.w_utxos)
      [] k = "panic" -> RetPanic
      [] OTHER -> RetNone

\* select_coins_bnb returns by k: to the caller of the entry point, or into
\* the facade's local `bnb` (a panic unwinds through the facade).
BnbReturns(k, l) ==
    /\ exit' = IF BnbRet(k, l).kind = "Panic" THEN "panic" ELSE k
    /\ IF alg = "facade" /\ BnbRet(k, l).kind # "Panic"
       THEN /\ bnb' = BnbRet(k, l)
            /\ pc' = "facade"
            /\ ret' = ret
       ELSE /\ ret' = BnbRet(k, l)
            /\ pc' = "done"
            /\ bnb' = bnb

BnBStart ==
    /\ pc = "bnb_start"
    /\ LET o == BnbSetup(args) IN
       /\ b' = o.l
       /\ IF o.k = "loop"
          THEN pc' = "bnb_loop" /\ UNCHANGED <<bnb, ret, exit>>
          ELSE BnbReturns(o.k, o.l)
    /\ UNCHANGED <<alg, args, g, srd>>

\* One pass of `while iteration < ITERATION_LIMIT`.
BnBIterate ==
    /\ pc = "bnb_loop"
    /\ b.iteration < args.limit
    /\ \E wrap \in (IF BnbMayWrap(b) THEN BOOLEAN ELSE {FALSE}) :
         LET o == BnbPass(b, args, wrap) IN
         /\ b' = o.l
         /\ IF o.k = "next"
            THEN pc' = "bnb_loop" /\ UNCHANGED <<bnb, ret, exit>>
            ELSE BnbReturns(o.k, o.l)
    /\ UNCHANGED <<alg, args, g, srd>>

\* Line 300: the loop ended on the iteration cap.
BnBLimit ==
    /\ pc = "bnb_loop"
    /\ b.iteration >= args.limit
    /\ BnbReturns("limit", b)
    /\ UNCHANGED <<alg, args, b, g, srd>>

\* ------------------------------------------------------------------------
\* Coin grinder (coin_grinder.rs)
\* ------------------------------------------------------------------------
CgLocals0 ==
    [w_utxos |-> <<>>, available_value |-> 0, lookahead |-> <<>>, min_tail_weight |-> <<>>,
     total_target |-> 0, selection |-> <<>>, best_selection |-> <<>>,
     amount_total |-> 0, best_amount |-> AMOUNT_MAX, weight_total |-> 0, best_weight |-> 0,
     next_utxo_index |-> 0, iteration |-> 0]

\* calc_effective_values: (effective_value, utxo) of every candidate with a
\* computable, positive effective value, in pool order.
\* A filter that lets an effective value of zero through.
CgKeepsNonNegative(u, fee_rate) ==
    /\ utxo_effective_value(u, fee_rate).some
    /\ utxo_effective_value(u, fee_rate).v >= 0

CgKeeps(u, fee_rate) ==
    /\ utxo_effective_value(u, fee_rate).some
    /\ utxo_effective_value(u, fee_rate).v > 0

calc_effective_values(weighted_utxos, fee_rate) ==
    LET kept == SelectSeq([k \in 1..Len(weighted_utxos) |-> k],
                          LAMBDA k : CgKeeps(weighted_utxos[k], fee_rate))
    IN [j \in 1..Len(kept) |->
          [ev |-> utxo_effective_value(weighted_utxos[kept[j]], fee_rate).v,
           weight |-> weighted_utxos[kept[j]].weight,
           u |-> kept[j]]]

\* A comparator that sorts by ascending effective value.
CgBeforeAscending(x, y) == x.ev < y.ev \/ (x.ev = y.ev /\ x.weight > y.weight)

\* Line 128: the comparator of sort_by; x goes before y.
CgBefore(x, y) == x.ev > y.ev \/ (x.ev = y.ev /\ x.weight > y.weight)

RECURSIVE CgInsert(_, _)
CgInsert(x, sorted) ==
    IF sorted = <<>> THEN <<x>>
    ELSE IF CgBefore(x, Head(sorted)) THEN <<x>> \o sorted
    ELSE <<Head(sorted)>> \o CgInsert(x, Tail(sorted))

RECURSIVE sort_by(_)
sort_by(w) == IF w = <<>> THEN <<>> ELSE CgInsert(Last(w), sort_by(Front(w)))

\* A lookahead that counts the candidate itself.
build_lookahead_inclusive(w, available_value) ==
    [i \in 1..Len(w) |-> available_value - SumSeq([j \in 1..(i - 1) |-> w[j].ev])]

\* build_lookahead: the running remainder of available_value.
build_lookahead(w, available_value) ==
    [i \in 1..Len(w) |-> available_value - SumSeq([j \in 1..i |-> w[j].ev])]

\* build_min_tail_weight: walking from the tail, the minimum weight seen so
\* far, Weight::MAX before anything was seen.
RECURSIVE MinWeightFrom(_, _)
MinWeightFrom(w, i) ==
    IF i > Len(w) THEN WEIGHT_MAX
    ELSE LET rest == MinWeightFrom(w, i + 1) IN
         IF w[i].weight < rest THEN w[i].weight ELSE rest

\* A minimum that counts the candidate itself.
build_min_tail_weight_inclusive(w) == [i \in 1..Len(w) |-> MinWeightFrom(w, i)]

build_min_tail_weight(w) == [i \in 1..Len(w) |-> MinWeightFrom(w, i + 1)]

cg_index_to_utxo_list(iteration, index_list, wu) ==
    IF \E k \in 1..Len(index_list) : index_list[k] < 0 \/ index_list[k] >= Len(wu)
    THEN RetPanic
    ELSE IF index_list = <<>> THEN RetNone
    ELSE RetSome(iteration, [k \in 1..Len(index_list) |-> At(wu, index_list[k]).u])

\* Lines 123-149: everything before the loop.  k is "loop" or the return
\* taken ("panic": the unchecked `target + change_target` overflowed).
CgSetup(a) ==
    LET unsorted == calc_effective_values(a.weighted_utxos, a.fee_rate)
        available_value == checked_sum([k \in 1..Len(unsorted) |-> unsorted[k].ev])
        w_utxos == sort_by(unsorted)
    IN IF ~available_value.some THEN [k |-> "sum_overflow", l |-> CgLocals0]
       ELSE IF a.target + a.change_target > AMOUNT_MAX THEN [k |-> "panic", l |-> CgLocals0]
       ELSE LET l == [CgLocals0 EXCEPT
                        !.w_utxos = w_utxos,
                        !.available_value = available_value.v,
                        !.lookahead = build_lookahead(w_utxos, available_value.v),
                        !.min_tail_weight = build_min_tail_weight(w_utxos),
                        !.total_target = a.target + a.change_target,
                        !.best_weight = a.max_selection_weight]
            IN IF available_value.v < l.total_target
               THEN [k |-> "insufficient", l |-> l]
               ELSE [k |-> "loop", l |-> l]

\* Lines 210-227: what the selection just extended calls for.
\* [cut, shift, l]: the two flags and the locals with the best updated.
\* A comparison that looks at the weight alone (the tie-break of line 221
\* left out).
CgBetterByWeightOnly(l) == l.weight_total < l.best_weight

\* Lines 220-221: is the selection better than the best one?
CgBetter(l) ==
    \/ l.weight_total < l.best_weight
    \/ (l.weight_total = l.best_weight /\ l.amount_total < l.best_amount)

\* A target test that is satisfied one unit early.
CgReachesEarly(l) == l.amount_total + 1 >= l.total_target

\* Line 218: does the selection reach the total target?
CgReaches(l) == l.amount_total >= l.total_target

\* An evaluation that cuts on weight without looking at the lighter tails.
CgEvaluateCuttingOnWeight(l) ==
    LET tail == Last(l.selection) IN
    IF l.amount_total + At(l.lookahead, tail) < l.total_target
    THEN [cut |-> TRUE, shift |-> FALSE, l |-> l]
    ELSE IF l.weight_total > l.best_weight
    THEN [cut |-> TRUE, shift |-> FALSE, l |-> l]
    ELSE IF CgReaches(l)
    THEN [cut |-> FALSE, shift |-> TRUE,
          l |-> IF CgBetter(l)
                THEN [l EXCEPT !.best_selection = l.selection,
                               !.best_weight = l.weight_total,
                               !.best_amount = l.amount_total]
                ELSE l]
    ELSE [cut |-> FALSE, shift |-> FALSE, l |-> l]

\* Lines 209-227: the evaluation of the selection after the push.
CgEvaluate(l) ==
    LET tail == Last(l.selection) IN
    IF l.amount_total + At(l.lookahead, tail) < l.total_target
    THEN [cut |-> TRUE, shift |-> FALSE, l |-> l]
    ELSE IF l.weight_total > l.best_weight
    THEN IF At(l.w_utxos, tail).weight <= At(l.min_tail_weight, tail)
         THEN [cut |-> TRUE, shift |-> FALSE, l |-> l]
         ELSE [cut |-> FALSE, shift |-> TRUE, l |-> l]
    ELSE IF CgReaches(l)
    THEN [cut |-> FALSE, shift |-> TRUE,
          l |-> IF CgBetter(l)
                THEN [l EXCEPT !.best_selection = l.selection,
                               !.best_weight = l.weight_total,
                               !.best_amount = l.amount_total]
                ELSE l]
    ELSE [cut |-> FALSE, shift |-> FALSE, l |-> l]

\* The "deselect" blocks, lines 240-243 and 255-258.
CgDeselect(l, wrap) ==
    LET t == At(l.w_utxos, Last(l.selection)) IN
    IF l.selection = <<>> \/ l.amount_total < t.ev THEN [k |-> "panic", l |-> l]
    ELSE IF l.weight_total < t.weight /\ ~wrap THEN [k |-> "panic", l |-> l]
    ELSE [k |-> "next",
          l |-> [l EXCEPT !.amount_total = l.amount_total - t.ev,
                          !.weight_total = (l.weight_total - t.weight) % (WEIGHT_MAX + 1),
                          !.selection = Front(l.selection)]]

\* A shift that goes back to the tail itself instead of past it.
CgShiftOntoTail(l, wrap) ==
    IF l.selection = <<>> THEN [k |-> "exhausted", l |-> l]
    ELSE CgDeselect([l EXCEPT !.next_utxo_index = Last(l.selection)], wrap)

\* Lines 247-259.  k is "next", "exhausted" (line 249) or "panic".
CgShift(l, wrap) ==
    IF l.selection = <<>> THEN [k |-> "exhausted", l |-> l]
    ELSE CgDeselect([l EXCEPT !.next_utxo_index = Last(l.selection) + 1], wrap)

\* One pass of the loop, lines 200-259.
\* k is "next", "limit" (line 230), "exhausted" or "panic".
CgPass(l, limit, wrap) ==
    IF l.next_utxo_index >= Len(l.w_utxos) THEN [k |-> "panic", l |-> l]
    ELSE LET t == At(l.w_utxos, l.next_utxo_index) IN
    IF l.amount_total + t.ev > AMOUNT_MAX THEN [k |-> "panic", l |-> l]
    ELSE IF l.weight_total + t.weight > WEIGHT_MAX /\ ~wrap THEN [k |-> "panic", l |-> l]
    ELSE LET l1 == [l EXCEPT !.amount_total = l.amount_total + t.ev,
                             !.weight_total = (l.weight_total + t.weight) % (WEIGHT_MAX + 1),
                             !.selection = Append(l.selection, l.next_utxo_index),
                             !.next_utxo_index = l.next_utxo_index + 1,
                             !.iteration = l.iteration + 1]
             e == CgEvaluate(l1)
         IN IF e.l.iteration >= limit THEN [k |-> "limit", l |-> e.l]
            ELSE LET cut == e.cut \/ e.l.next_utxo_index = Len(e.l.w_utxos)
                     c == IF cut THEN CgDeselect(e.l, wrap) ELSE [k |-> "next", l |-> e.l]
                 IN IF c.k # "next" THEN c
                    ELSE IF cut \/ e.shift THEN CgShift(c.l, wrap)
                    ELSE c

\* Can the weight arithmetic of this pass leave the range of Weight?
CgMayWrap(l) ==
    /\ l.next_utxo_index < Len(l.w_utxos)
    /\ \/ l.weight_total + At(l.w_utxos, l.next_utxo_index).weight > WEIGHT_MAX
       \/ \E k \in 1..Len(l.selection) : l.weight_total < At(l.w_utxos, l.selection[k]).weight

\* What select_coins returns when it leaves by k.
CgRet(k, l) ==
    CASE k \in {"exhausted", "limit"} -> cg_index_to_utxo_list(l.iteration, l.best_selection, l.w_utxos)
      [] k = "panic" -> RetPanic
      [] OTHER -> RetNone

CgReturns(k, l) ==
    /\ exit' = IF CgRet(k, l).kind = "Panic" THEN "panic" ELSE k
    /\ ret' = CgRet(k, l)
    /\ pc' = "done"

CGStart ==
    /\ pc = "cg_start"
    /\ LET o == CgSetup(args) IN
       /\ g' = o.l
       /\ IF o.k = "loop"
          THEN pc' = "cg_loop" /\ UNCHANGED <<ret, exit>>
          ELSE CgReturns(o.k, o.l)
    /\ UNCHANGED <<alg, args, b, srd, bnb>>

CGIterate ==
    /\ pc = "cg_loop"
    /\ \E wrap \in (IF CgMayWrap(g) THEN BOOLEAN ELSE {FALSE}) :
         LET o == CgPass(g, args.limit, wrap) IN
         /\ g' = o.l
         /\ IF o.k = "next"
            THEN pc' = "cg_loop" /\ UNCHANGED <<ret, exit>>
            ELSE CgReturns(o.k, o.l)
    /\ UNCHANGED <<alg, args, b, srd, bnb>>

\* ------------------------------------------------------------------------
\* Single random draw (single_random_draw.rs)
\* ------------------------------------------------------------------------
SrdLocals0 == [origin |-> <<>>, result |-> <<>>, threshold |-> 0, value |-> 0, iteration |-> 0]

\* WeightedUtxo::satisfaction_weight: the weight without the base weight of
\* an input, which weight() includes.
satisfaction_weight(u) == u.weight - TX_IN_BASE_WEIGHT

\* bitcoin::blockdata::transaction::effective_value, which line 60 calls: the
\* base weight is added to the satisfaction weight before the fee is taken.
tx_effective_value(fee_rate, sat_weight, value) ==
    IF sat_weight + TX_IN_BASE_WEIGHT > WEIGHT_MAX THEN None
    ELSE effective_value(fee_rate, sat_weight + TX_IN_BASE_WEIGHT, value)

\* Lines 62-63: the candidate counts with value v, or is passed over.
SrdAccepts(u, fee_rate) ==
    LET e == tx_effective_value(fee_rate, satisfaction_weight(u), u.value) IN
    IF ~e.some THEN None ELSE to_unsigned(e.v)

\* SliceRandom::shuffle: any order of the pool's references.
Shuffles(n) == {p \in [1..n -> 1..n] : \A i, j \in 1..n : i # j => p[i] # p[j]}

\* A threshold without the room for change.
SrdThresholdWithoutChange(target) == target

\* Line 52.
SrdThreshold(target) == target + CHANGE_LOWER

\* A stop test that wants the threshold exceeded.
SrdFoundStrict(l) == l.value > l.threshold

\* Line 68: does the running sum reach the threshold?
SrdFound(l) == l.value >= l.threshold

\* An entry test that lets every target through.
SrdTooLargeNever(target) == FALSE

\* Line 42: is the target above Amount::MAX_MONEY?
SrdTooLarge(target) == target > MAX_MONEY

\* Lines 42-55.
SRDStart ==
    /\ pc = "srd_start"
    /\ IF SrdTooLarge(args.target)
       THEN /\ pc' = "done"
            /\ ret' = RetNone
            /\ exit' = "max_money"
            /\ srd' = SrdLocals0
       ELSE /\ \E origin \in Shuffles(Len(args.weighted_utxos)) :
                 srd' = [SrdLocals0 EXCEPT !.origin = origin,
                                           !.threshold = SrdThreshold(args.target)]
            /\ IF SrdThreshold(args.target) > AMOUNT_MAX
               THEN pc' = "done" /\ ret' = RetPanic /\ exit' = "panic"
               ELSE pc' = "srd_loop" /\ UNCHANGED <<ret, exit>>
    /\ UNCHANGED <<alg, args, b, g, bnb>>

\* A pass that keeps in the result the candidates it passes over.
SrdPassKeepingSkipped(l, a) ==
    LET w_utxo == l.origin[l.iteration + 1]
        v == SrdAccepts(a.weighted_utxos[w_utxo], a.fee_rate)
        l1 == [l EXCEPT !.iteration = l.iteration + 1]
    IN IF ~v.some THEN [k |-> "next", l |-> [l1 EXCEPT !.result = Append(l1.result, w_utxo)]]
       ELSE IF l1.value + v.v > AMOUNT_MAX THEN [k |-> "panic", l |-> l1]
       ELSE LET l2 == [l1 EXCEPT !.value = l1.value + v.v,
                                 !.result = Append(l1.result, w_utxo)]
            IN IF SrdFound(l2) THEN [k |-> "found", l |-> l2]
               ELSE [k |-> "next", l |-> l2]

\* Lines 56-72: one pass of `for w_utxo in origin`.
\* k is "next", "found" (line 69) or "panic".
SrdPass(l, a) ==
    LET w_utxo == l.origin[l.iteration + 1]
        v == SrdAccepts(a.weighted_utxos[w_utxo], a.fee_rate)
        l1 == [l EXCEPT !.iteration = l.iteration + 1]
    IN IF ~v.some THEN [k |-> "next", l |-> l1]
       ELSE IF l1.value + v.v > AMOUNT_MAX THEN [k |-> "panic", l |-> l1]
       ELSE LET l2 == [l1 EXCEPT !.value = l1.value + v.v,
                                 !.result = Append(l1.result, w_utxo)]
            IN IF SrdFound(l2) THEN [k |-> "found", l |-> l2]
               ELSE [k |-> "next", l |-> l2]

SRDDraw ==
    /\ pc = "srd_loop"
    /\ srd.iteration < Len(srd.origin)
    /\ LET o == SrdPass(srd, args) IN
       /\ srd' = o.l
       /\ CASE o.k = "next" -> pc' = "srd_loop" /\ UNCHANGED <<ret, exit>>
            [] o.k = "found" ->
                  pc' = "done" /\ ret' = RetSome(o.l.iteration, o.l.result) /\ exit' = "found"
            [] OTHER -> pc' = "done" /\ ret' = RetPanic /\ exit' = "panic"
    /\ UNCHANGED <<alg, args, b, g, bnb>>

\* Line 75: the pool is used up.
SRDExhausted ==
    /\ pc = "srd_loop"
    /\ srd.iteration >= Len(srd.origin)
    /\ pc' = "done"
    /\ ret' = RetNone
    /\ exit' = "consumed"
    /\ UNCHANGED <<alg, args, b, g, srd, bnb>>

\* ------------------------------------------------------------------------
\* The facade select_coins (lib.rs)
\* ------------------------------------------------------------------------
\* A facade that draws at random whatever select_coins_bnb returned.
FacadeDecideAlwaysDraws ==
    /\ pc = "facade"
    /\ pc' = "srd_start" /\ ret' = ret
    /\ UNCHANGED <<alg, args, b, g, srd, bnb, exit>>

\* Lines 91-95, after select_coins_bnb returned into `bnb`.
FacadeDecide ==
    /\ pc = "facade"
    /\ IF bnb.kind = "Some"
       THEN pc' = "done" /\ ret' = bnb
       ELSE pc' = "srd_start" /\ ret' = ret
    /\ UNCHANGED <<alg, args, b, g, srd, bnb, exit>>

\* ------------------------------------------------------------------------
\* The calls
\* ------------------------------------------------------------------------
Utxo(v, w) == [value |-> v, weight |-> w]

\* The candidates a pool is drawn from.  With fee rate 5 sat/kwu their fees
\* are 1, 2, 1, 1 and 5 sat and their effective values 0, -1, 1, 2 and 1.
Utxos == {Utxo(1, 200), Utxo(1, 400), Utxo(2, 200), Utxo(3, 200), Utxo(6, 1000)}
Pools == UNION {[1..n -> Utxos] : n \in 0..MaxPool}
FeeRates == {0, 5}
Limits == {ScaledIterationLimit, ITERATION_LIMIT}

NoArgs ==
    [target |-> 0, cost_of_change |-> 0, change_target |-> 0, max_selection_weight |-> 0,
     fee_rate |-> 0, long_term_fee_rate |-> 0, weighted_utxos |-> <<>>, limit |-> ITERATION_LIMIT]

BnbArgs ==
    {[NoArgs EXCEPT !.target = t, !.cost_of_change = c, !.fee_rate = f,
                    !.long_term_fee_rate = lt, !.weighted_utxos = p, !.limit = n] :
        t \in 0..MaxTarget, c \in 0..MaxChange, f \in FeeRates, lt \in FeeRates,
        p \in Pools, n \in Limits}

MaxWeights == {0, 400, 600, WEIGHT_MAX}

CgArgs ==
    {[NoArgs EXCEPT !.target = t, !.change_target = c, !.max_selection_weight = m,
                    !.fee_rate = f, !.weighted_utxos = p, !.limit = n] :
        t \in 0..MaxTarget, c \in 0..MaxChange, m \in MaxWeights, f \in FeeRates,
        p \in Pools, n \in Limits}

SrdArgs ==
    {[NoArgs EXCEPT !.target = t, !.fee_rate = f, !.weighted_utxos = p] :
        t \in 0..MaxTarget \cup {MAX_MONEY, MAX_MONEY + 1}, f \in FeeRates, p \in Pools}

FacadePools == UNION {[1..n -> Utxos] : n \in 0..(MaxPool - 1)}

FacadeArgs ==
    {[NoArgs EXCEPT !.target = t, !.cost_of_change = c, !.fee_rate = f,
                    !.long_term_fee_rate = lt, !.weighted_utxos = p, !.limit = n] :
        t \in 0..MaxTarget, c \in 0..MaxChange, f \in FeeRates, lt \in FeeRates,
        p \in FacadePools, n \in Limits}

\* Calls at the edge of the amount types: candidates worth SignedAmount::MAX
\* and one sat more (to_signed fails: no effective value), targets next to
\* Amount::MAX, and a long-term fee rate whose fee overflows (no waste).
EdgeUtxos == {Utxo(1, 200), Utxo(SIGNED_MAX, 200), Utxo(SIGNED_MAX + 1, 200)}
EdgeFeeRate == WEIGHT_MAX \div 200 + 1
EdgePools == UNION {[1..n -> EdgeUtxos] : n \in 0..MaxPool}
EdgeTargets == {SIGNED_MAX, AMOUNT_MAX - 1, AMOUNT_MAX}

BnbEdgeArgs ==
    {[NoArgs EXCEPT !.target = t, !.cost_of_change = c, !.long_term_fee_rate = lt,
                    !.weighted_utxos = p] :
        t \in EdgeTargets \cup {1}, c \in 0..MaxChange \cup {SIGNED_MAX},
        lt \in {0, EdgeFeeRate}, p \in EdgePools}

CgEdgeArgs ==
    {[NoArgs EXCEPT !.target = t, !.change_target = c, !.max_selection_weight = m,
                    !.weighted_utxos = p] :
        t \in EdgeTargets, c \in 0..MaxChange, m \in {400, 600}, p \in EdgePools}

SrdEdgeArgs ==
    {[NoArgs EXCEPT !.target = t, !.weighted_utxos = p] :
        t \in {0, MAX_MONEY}, p \in EdgePools}

\* The call of the test select_coins_bnb_five (branch_and_bound.rs:445-446
\* through assert_coin_select, lines 384-405): 1, 2, 3 and 4 cBTC of 68 vb
\* each, target 5 cBTC, no fees, no cost of change; amounts in cBTC.
BnbExampleArgs ==
    {[NoArgs EXCEPT !.target = 5,
                    !.weighted_utxos = <<Utxo(1, 272), Utxo(2, 272), Utxo(3, 272), Utxo(4, 272)>>]}

\* The call of the test example_solution (coin_grinder.rs:345-357), which is
\* the example of the comments in the loop: 10 sat/8 wu, 7 sat/4 wu,
\* 5 sat/4 wu and 4 sat/8 wu, target 11 sat, no change target, no fee,
\* at most 100 wu.
CgExampleArgs ==
    {[NoArgs EXCEPT !.target = 11, !.max_selection_weight = 100,
                    !.weighted_utxos = <<Utxo(10, 8), Utxo(7, 4), Utxo(5, 4), Utxo(4, 8)>>]}

Init ==
    /\ \/ alg = "bnb" /\ pc = "bnb_start" /\ args \in BnbArgs \cup BnbEdgeArgs \cup BnbExampleArgs
       \/ alg = "cg" /\ pc = "cg_start" /\ args \in CgArgs \cup CgEdgeArgs \cup CgExampleArgs
       \/ alg = "srd" /\ pc = "srd_start" /\ args \in SrdArgs \cup SrdEdgeArgs
       \/ alg = "facade" /\ pc = "bnb_start" /\ args \in FacadeArgs
    /\ b = BnbLocals0
    /\ g = CgLocals0
    /\ srd = SrdLocals0
    /\ bnb = NoRet
    /\ ret = NoRet
    /\ exit = "running"

Next ==
    \/ BnBStart
    \/ BnBIterate
    \/ BnBLimit
    \/ CGStart
    \/ CGIterate
    \/ SRDStart
    \/ SRDDraw
    \/ SRDExhausted
    \/ FacadeDecide

Spec == Init /\ [][Next]_vars

\* ------------------------------------------------------------------------
\* Properties
\* ------------------------------------------------------------------------
Pool == args.weighted_utxos
Eff(i) == utxo_effective_value(Pool[i], args.fee_rate)
Waste(i) == waste(Pool[i], args.fee_rate, args.long_term_fee_rate)

\* The candidates with a computable, positive effective value (and waste).
Positive == {i \in 1..Len(Pool) : Eff(i).some /\ Waste(i).some /\ Eff(i).v > 0}
Selections == SUBSET Positive \ {{}}

RECURSIVE SetEff(_)
SetEff(S) == IF S = {} THEN 0
             ELSE LET x == CHOOSE x \in S : TRUE IN Eff(x).v + SetEff(S \ {x})
RECURSIVE SetWaste(_)
SetWaste(S) == IF S = {} THEN 0
               ELSE LET x == CHOOSE x \in S : TRUE IN Waste(x).v + SetWaste(S \ {x})
RECURSIVE SetWeight(_)
SetWeight(S) == IF S = {} THEN 0
                ELSE LET x == CHOOSE x \in S : TRUE IN Pool[x].weight + SetWeight(S \ {x})

Range(us) == {us[k] : k \in 1..Len(us)}
SeqEff(us) == SumSeq([k \in 1..Len(us) |-> Eff(us[k]).v])
SeqWeight(us) == SumSeq([k \in 1..Len(us) |-> Pool[us[k]].weight])

BnbDone == alg = "bnb" /\ pc = "done"
CgDone == alg = "cg" /\ pc = "done"
SrdDone == alg = "srd" /\ pc = "done"

InWindow(S) ==
    /\ args.target <= SetEff(S)
    /\ SetEff(S) <= args.target + args.cost_of_change
WasteScore(S) == SetWaste(S) + (SetEff(S) - args.target)

Feasible(S) ==
    /\ SetEff(S) >= args.target + args.change_target
    /\ SetWeight(S) <= args.max_selection_weight
LexLess(w1, e1, w2, e2) == w1 < w2 \/ (w1 = w2 /\ e1 < e2)

\* C1: whenever select_coins_bnb returns Some((iterations, S)), the effective
\* values of S at fee_rate sum to at least target and at most
\* target + cost_of_change.
C1_BnbWithinWindow ==
    (BnbDone /\ ret.kind = "Some") =>
        /\ \A k \in 1..Len(ret.utxos) : Eff(ret.utxos[k]).some
        /\ args.target <= SeqEff(ret.utxos)
        /\ SeqEff(ret.utxos) <= args.target + args.cost_of_change

C1_Witness ==
    /\ BnbDone /\ ret.kind = "Some" /\ Len(ret.utxos) >= 2
    /\ args.fee_rate > 0 /\ SeqEff(ret.utxos) > args.target

C4_BnbMinimalWaste ==
    (BnbDone /\ ret.kind = "Some" /\ exit = "exhausted") =>
        \A S \in Selections :
            InWindow(S) => WasteScore(S) >= WasteScore(Range(ret.utxos))

C6_BnbNoneOnlyWithoutMatch ==
    (BnbDone /\ ret.kind = "None" /\ args.target > 0
        /\ exit \in {"exhausted", "insufficient"}) =>
        \A S \in Selections : ~InWindow(S)

\* C7: when the search of coin-grinder select_coins ends by exhausting the
\* tree and returns None, no (non-empty) selection of positive candidates
\* reaches target + change_target within max_selection_weight.
C7_CgNoneOnlyWithoutMatch ==
    (CgDone /\ ret.kind = "None" /\ exit \in {"exhausted", "insufficient"}) =>
        \A S \in Selections : ~Feasible(S)

\* The candidates select_coins_srd does not pass over: those whose effective
\* value is computable and not negative.
Counted(i) == Eff(i).some /\ Eff(i).v >= 0
CountedEff(us) == SumSeq([k \in 1..Len(us) |-> IF Counted(us[k]) THEN Eff(us[k]).v ELSE 0])
AllCountedEff == CountedEff([k \in 1..Len(Pool) |-> k])

\* select_coins_srd has returned (to its caller or to the facade).
SrdReturned == pc = "done" /\ exit \in {"found", "consumed", "max_money"}

\* C3: whenever select_coins_srd returns Some((iterations, S)), whatever the
\* shuffle, the effective values of S sum to at least target + CHANGE_LOWER.
C3_SrdMeetsThreshold ==
    (SrdReturned /\ ret.kind = "Some") =>
        /\ \A k \in 1..Len(ret.utxos) : Eff(ret.utxos[k]).some
        /\ SeqEff(ret.utxos) >= args.target + CHANGE_LOWER

C3_Witness ==
    /\ alg = "srd" /\ SrdReturned /\ ret.kind = "Some"
    /\ args.fee_rate > 0 /\ Len(ret.utxos) >= 2
    /\ SeqEff(ret.utxos) = args.target + CHANGE_LOWER

\* C8: the facade returns exactly what select_coins_bnb returned whenever
\* that is Some, without consulting select_coins_srd; it consults
\* select_coins_srd, on the same target, fee rate and pool, only after
\* select_coins_bnb returned None; and it returns None only when both
\* returned None.
C8_FacadeFallsBack ==
    alg = "facade" =>
        /\ (pc = "done" /\ bnb.kind = "Some") => (ret = bnb /\ srd = SrdLocals0)
        /\ (pc \in {"srd_start", "srd_loop"} \/ srd # SrdLocals0) => bnb.kind = "None"
        /\ pc = "srd_loop" =>
              /\ srd.threshold = args.target + CHANGE_LOWER
              /\ Range(srd.origin) = 1..Len(Pool)
              /\ Len(srd.origin) = Len(Pool)
        /\ (pc = "done" /\ ret.kind = "None") =>
              (bnb.kind = "None" /\ exit \in {"consumed", "max_money"})
        /\ (pc = "done" /\ ret.kind = "Some" /\ bnb.kind = "None") => exit = "found"

C8_Witness ==
    /\ alg = "facade" /\ pc = "done" /\ bnb.kind = "None"
    /\ ret.kind = "Some" /\ exit = "found" /\ Len(ret.utxos) >= 2

\* C9: select_coins_srd returns at the first candidate, in shuffled order, at
\* which the running sum of the effective values it counts reaches
\* target + CHANGE_LOWER: the selection is the counted candidates among the
\* first `iterations` shuffled ones, in that order; its last member is the
\* candidate examined last; without it the sum is below the threshold; and
\* `iterations` counts the candidates passed over as well.
C9_SrdFirstPrefix ==
    (SrdReturned /\ ret.kind = "Some") =>
        /\ ret.iterations \in 1..Len(srd.origin)
        /\ ret.utxos = SelectSeq(SubSeq(srd.origin, 1, ret.iterations), Counted)
        /\ Last(ret.utxos) = srd.origin[ret.iterations]
        /\ CountedEff(Front(ret.utxos)) < args.target + CHANGE_LOWER
        /\ CountedEff(ret.utxos) >= args.target + CHANGE_LOWER

C9_Witness ==
    /\ alg = "srd" /\ SrdReturned /\ ret.kind = "Some"
    /\ Len(ret.utxos) >= 2 /\ ret.iterations > Len(ret.utxos)

\* C10: for target <= MAX_MONEY the outcome of select_coins_srd does not
\* depend on the shuffle: under every order it returns None when the
\* effective values of all the candidates it counts sum to less than
\* target + CHANGE_LOWER, and Some otherwise.
C10_SrdOutcomeIgnoresOrder ==
    (SrdDone /\ args.target <= MAX_MONEY) =>
        /\ ret.kind \in {"Some", "None"}
        /\ ret.kind = "None" <=> AllCountedEff < args.target + CHANGE_LOWER

C10_Witness ==
    /\ alg = "srd" /\ pc = "done" /\ ret.kind = "Some"
    /\ AllCountedEff = args.target + CHANGE_LOWER
    /\ Len(Pool) >= 2 /\ srd.origin[1] > srd.origin[2]
    /\ \E i \in 1..Len(Pool) : ~Counted(i)

\* The references a list of projection indices stands for.
Refs(index_list, wu) == [k \in 1..Len(index_list) |-> At(wu, index_list[k]).u]

\* C11: when the iteration counter reaches the cap before the tree is
\* exhausted, select_coins_bnb and coin-grinder select_coins return the best
\* selection recorded so far with iterations equal to the cap, and None when
\* no selection has been recorded.
C11_CapReturnsBest ==
    /\ (BnbDone /\ exit = "limit") =>
          /\ b.iteration = args.limit
          /\ ret = IF b.best_selection = <<>> THEN RetNone
                   ELSE RetSome(args.limit, Refs(b.best_selection, b.w_utxos))
    /\ (CgDone /\ exit = "limit") =>
          /\ g.iteration = args.limit
          /\ ret = IF g.best_selection = <<>> THEN RetNone
                   ELSE RetSome(args.limit, Refs(g.best_selection, g.w_utxos))

C11_Witness ==
    /\ BnbDone /\ exit = "limit" /\ ret.kind = "Some"
    /\ b.index_selection # <<>> /\ b.index_selection # b.best_selection

\* C12: select_coins_bnb and coin-grinder select_coins return None whenever
\* the iteration cap is hit.
C12_CapReturnsNone ==
    ((BnbDone \/ CgDone) /\ exit = "limit") => ret.kind = "None"

\* C13: in select_coins_bnb and coin-grinder select_coins the iteration
\* counter starts at 0, grows by exactly one with every search step that does
\* not return and never decreases, and the count returned with a selection
\* is at most the cap.
C13_IterationsCountSteps ==
    [][/\ (pc \in {"bnb_start", "cg_start"}) => (b'.iteration = 0 /\ g'.iteration = 0)
       /\ (pc = "bnb_loop" /\ pc' = "bnb_loop") => b'.iteration = b.iteration + 1
       /\ (pc = "cg_loop" /\ pc' = "cg_loop") => g'.iteration = g.iteration + 1
       /\ b'.iteration >= b.iteration /\ g'.iteration >= g.iteration
       /\ (pc' = "done" /\ alg \in {"bnb", "cg"} /\ ret'.kind = "Some") =>
             (ret'.iterations <= args.limit /\ args.limit <= ITERATION_LIMIT
              /\ ret'.iterations = (IF alg = "bnb" THEN b' ELSE g').iteration)]_vars

C13_Witness ==
    /\ BnbDone /\ ret.kind = "Some" /\ exit = "exhausted"
    /\ ret.iterations > ScaledIterationLimit /\ Len(ret.utxos) >= 2

\* What the next pass can lead to, over the builds (checked or wrapping
\* unchecked arithmetic) where they differ.
BnbSuccessors == {BnbPass(b, args, wrap) : wrap \in (IF BnbMayWrap(b) THEN BOOLEAN ELSE {FALSE})}
CgSuccessors == {CgPass(g, args.limit, wrap) : wrap \in (IF CgMayWrap(g) THEN BOOLEAN ELSE {FALSE})}

C15_BnbNeverPanics ==
    alg \in {"bnb", "facade"} =>
        /\ ret.kind # "Panic" /\ bnb.kind # "Panic"
        /\ pc = "bnb_loop" =>
              /\ b.index <= Len(b.w_utxos)
              /\ b.index_selection # <<>> => Last(b.index_selection) < b.index
              /\ \A wrap \in BOOLEAN : BnbPass(b, args, wrap).k # "panic"

C15_Witness ==
    /\ alg = "bnb" /\ pc = "bnb_loop" /\ Len(b.w_utxos) >= 3
    /\ b.index = Len(b.w_utxos) /\ b.index_selection # <<>>
    /\ Last(b.index_selection) < b.index - 1

\* C16: select_coins_bnb returns None for target = 0, whatever the pool, the
\* cost of change and the fee rates, without executing a search step.
C16_BnbZeroTargetIsNone ==
    (alg = "bnb" /\ args.target = 0) =>
        /\ pc \in {"bnb_start", "done"}
        /\ b.iteration = 0
        /\ pc = "done" => ret = RetNone

C16_Witness ==
    /\ BnbDone /\ args.target = 0 /\ args.cost_of_change > 0
    /\ Cardinality(Positive) >= 2 /\ ret = RetNone

\* C17: coin-grinder select_coins returns None whenever target = 0.
C17_CgZeroTargetIsNone ==
    (CgDone /\ args.target = 0) => ret.kind = "None"

\* No candidate has a computable, positive effective value.
EmptyProjection == \A i \in 1..Len(Pool) : ~(Eff(i).some /\ Eff(i).v > 0)

\* C18: when the projection is empty (empty pool, or no candidate with a
\* positive, computable effective value), select_coins_bnb and coin-grinder
\* select_coins return None for every target and change parameter, without
\* a search step that would read the projection.
C18_EmptyProjectionIsNone ==
    (alg \in {"bnb", "cg"} /\ EmptyProjection) =>
        /\ pc \in {"bnb_start", "cg_start", "done"}
        /\ pc = "done" => (ret.kind = "None" /\ b.iteration = 0 /\ g.iteration = 0)

\* C19: select_coins_bnb returns None, without panicking or wrapping and
\* before any search step, when target + cost_of_change overflows the amount
\* type and when the sum of the positive effective values of the pool does.
C19_BnbOverflowIsNone ==
    (alg = "bnb" /\ (args.target + args.cost_of_change > AMOUNT_MAX
                     \/ SetEff(Positive) > AMOUNT_MAX)) =>
        /\ pc \in {"bnb_start", "done"}
        /\ pc = "done" => (ret = RetNone /\ b.iteration = 0
                           /\ exit \in {"upper_bound_overflow", "sum_overflow"})

C19_Witness ==
    /\ BnbDone /\ ret = RetNone /\ exit = "sum_overflow"
    /\ args.target + args.cost_of_change = AMOUNT_MAX
    /\ SetEff(Positive) > AMOUNT_MAX

\* C20: coin-grinder select_coins returns None when target + change_target
\* overflows the amount type.
C20_CgOverflowIsNone ==
    (CgDone /\ args.target + args.change_target > AMOUNT_MAX) => ret.kind = "None"

\* C21: select_coins_srd returns None for a target above MAX_MONEY; for any
\* other target the threshold fits the amount type, the running sum is below
\* the threshold at the start of every pass, so that adding a counted
\* candidate fits too, and the function never panics.
C21_SrdNeverOverflows ==
    /\ (SrdDone /\ args.target > MAX_MONEY) => (ret = RetNone /\ srd.iteration = 0)
    /\ (pc \in {"srd_start", "srd_loop"} \/ SrdDone) => ret.kind # "Panic"
    /\ pc = "srd_loop" =>
          /\ args.target <= MAX_MONEY
          /\ srd.threshold = args.target + CHANGE_LOWER
          /\ srd.threshold <= AMOUNT_MAX
          /\ srd.value < srd.threshold
          /\ \A i \in 1..Len(Pool) : Counted(i) => srd.value + Eff(i).v <= AMOUNT_MAX

\* A draw for the largest target that ended above SignedAmount::MAX.
C21_Witness ==
    /\ SrdDone /\ ret.kind = "Some"
    /\ args.target = MAX_MONEY
    /\ srd.value > SIGNED_MAX + 1

\* C22: select_coins_srd returns None when the target amount is zero.
C22_SrdZeroTargetIsNone ==
    (SrdDone /\ args.target = 0) => ret.kind = "None"

\* C23: every candidate select_coins_srd returns has a strictly positive
\* effective value at fee_rate; a candidate whose effective value is zero,
\* negative or not computable is never returned.
C23_SrdResultIsPositive ==
    (SrdDone /\ ret.kind = "Some") =>
        \A k \in 1..Len(ret.utxos) : Eff(ret.utxos[k]).some /\ Eff(ret.utxos[k]).v > 0

\* C24: a candidate whose effective value is zero or negative, or whose
\* effective value (for select_coins_bnb also its waste) cannot be computed,
\* is never in the projection, in a current or best selection, or in the
\* result of select_coins_bnb or of coin grinder's select_coins.
BnbKept(i) == Eff(i).some /\ Waste(i).some /\ Eff(i).v > 0
CgKept(i) == Eff(i).some /\ Eff(i).v > 0

C24_OnlyPositiveCandidates ==
    /\ \A k \in 1..Len(b.w_utxos) :
          BnbKept(b.w_utxos[k].u) /\ b.w_utxos[k].ev = Eff(b.w_utxos[k].u).v
    /\ \A k \in 1..Len(g.w_utxos) :
          CgKept(g.w_utxos[k].u) /\ g.w_utxos[k].ev = Eff(g.w_utxos[k].u).v
    /\ \A i \in Range(b.index_selection) \cup Range(b.best_selection) :
          i < Len(b.w_utxos) => BnbKept(At(b.w_utxos, i).u)
    /\ \A i \in Range(g.selection) \cup Range(g.best_selection) :
          i < Len(g.w_utxos) => CgKept(At(g.w_utxos, i).u)
    /\ (BnbDone /\ ret.kind = "Some") => \A i \in Range(ret.utxos) : BnbKept(i)
    /\ bnb.kind = "Some" => \A i \in Range(bnb.utxos) : BnbKept(i)
    /\ (CgDone /\ ret.kind = "Some") => \A i \in Range(ret.utxos) : CgKept(i)

\* Coin grinder returned a selection from a pool that also holds a candidate
\* worth its fee and one worth less.
C24_Witness ==
    /\ CgDone /\ ret.kind = "Some"
    /\ \E i, j \in 1..Len(Pool) :
          /\ Eff(i).some /\ Eff(i).v = 0
          /\ Eff(j).some /\ Eff(j).v < 0

\* C25: in every reachable state of both searches the current selection and
\* the recorded best selection are strictly increasing sequences of valid
\* indices into the projection; so a returned selection holds UTXOs of the
\* pool only, each at most once.
StrictlyIncreasing(s) == \A k \in 1..(Len(s) - 1) : s[k] < s[k + 1]
ValidIndices(s, wu) == \A k \in 1..Len(s) : s[k] \in 0..(Len(wu) - 1)
Distinct(us) == \A j, k \in 1..Len(us) : j # k => us[j] # us[k]

C25_SelectionsAreIncreasing ==
    /\ StrictlyIncreasing(b.index_selection) /\ ValidIndices(b.index_selection, b.w_utxos)
    /\ StrictlyIncreasing(b.best_selection) /\ ValidIndices(b.best_selection, b.w_utxos)
    /\ StrictlyIncreasing(g.selection) /\ ValidIndices(g.selection, g.w_utxos)
    /\ StrictlyIncreasing(g.best_selection) /\ ValidIndices(g.best_selection, g.w_utxos)
    /\ ((BnbDone \/ CgDone) /\ ret.kind = "Some") =>
          Distinct(ret.utxos) /\ Range(ret.utxos) \subseteq 1..Len(Pool)
    /\ bnb.kind = "Some" =>
          Distinct(bnb.utxos) /\ Range(bnb.utxos) \subseteq 1..Len(Pool)

\* A search whose current selection leaves a candidate out between two it
\* holds, after a selection was recorded.
C25_Witness ==
    /\ pc = "bnb_loop"
    /\ Len(b.index_selection) >= 2
    /\ b.index_selection[2] > b.index_selection[1] + 1
    /\ Len(b.best_selection) >= 2

\* A step of select_coins_bnb that went through the inclusion branch (lines
\* 270-293): the cursor advanced and nothing was popped.
BnbIncludeStep ==
    /\ pc = "bnb_loop" /\ pc' = "bnb_loop"
    /\ b'.index = b.index + 1
    /\ Len(b'.index_selection) >= Len(b.index_selection)

\* The candidate at the cursor follows a candidate of the same effective
\* value that is not in the current selection.
BnbEqualSiblingLeftOut ==
    /\ b.index >= 1
    /\ b.index < Len(b.w_utxos)
    /\ (b.index - 1) \notin Range(b.index_selection)
    /\ At(b.w_utxos, b.index).ev = At(b.w_utxos, b.index - 1).ev

BnbSkipped ==
    /\ b'.index_selection = b.index_selection
    /\ b'.value = b.value
    /\ b'.current_waste = b.current_waste

\* C26 as claimed: whenever the inclusion branch considers candidate k >= 1
\* while candidate k-1 is not in the current selection and has the same
\* effective value, candidate k is skipped: nothing is pushed, and value and
\* current_waste stay as they are.
C26_EqualSiblingIsSkipped ==
    [][(BnbIncludeStep /\ BnbEqualSiblingLeftOut) => BnbSkipped]_vars

\* C26, amended: the same, provided the current selection is not empty.
C26_EqualSiblingIsSkippedUnderASelection ==
    [][(BnbIncludeStep /\ BnbEqualSiblingLeftOut /\ b.index_selection # <<>>)
          => BnbSkipped]_vars

\* The cursor has passed two candidates of the same effective value, neither
\* of which the non-empty current selection holds: the second was skipped.
C26_Witness ==
    /\ pc = "bnb_loop"
    /\ b.index >= 2
    /\ b.index_selection # <<>>
    /\ Last(b.index_selection) < b.index - 2
    /\ At(b.w_utxos, b.index - 1).ev = At(b.w_utxos, b.index - 2).ev
    /\ b.available_value = SumSeq([j \in 1..(Len(b.w_utxos) - b.index) |->
                                     At(b.w_utxos, b.index + j - 1).ev])

\* The state in which the next step of select_coins_bnb scores a solution
\* (lines 227-245): none of the tests of lines 206-223 fires and the value
\* has reached the target.
BnbAtHit ==
    /\ pc = "bnb_loop"
    /\ b.iteration < args.limit
    /\ b.available_value + b.value >= args.target
    /\ b.value <= b.upper_bound
    /\ ~(b.current_waste > b.best_waste /\ args.fee_rate > args.long_term_fee_rate)
    /\ b.value >= args.target

\* C27: whenever select_coins_bnb reaches a solution hit and backtracks,
\* adding any candidate not yet considered (index >= cursor) to the current
\* selection would make value exceed target + cost_of_change.
C27_HitLeavesNoRoom ==
    BnbAtHit =>
        \A j \in b.index..(Len(b.w_utxos) - 1) :
            b.value + At(b.w_utxos, j).ev > args.target + args.cost_of_change

\* The pool positions behind a set of indices into select_coins_bnb's
\* projection, and the selections the search has ahead of it: the current
\* selection with any of the candidates from the cursor on.
BnbUtxosAt(I) == {At(b.w_utxos, i).u : i \in I}
BnbAhead ==
    {BnbUtxosAt(Range(b.index_selection) \cup T) :
        T \in SUBSET (b.index..(Len(b.w_utxos) - 1))}

\* Of the tests of lines 206-223 only the waste bound fires.
BnbOnlyWasteFires ==
    /\ pc = "bnb_loop"
    /\ b.iteration < args.limit
    /\ b.available_value + b.value >= args.target
    /\ b.value <= b.upper_bound
    /\ b.current_waste > b.best_waste
    /\ args.fee_rate > args.long_term_fee_rate

\* None of the tests fires with the fee rate at or below the long-term rate,
\* and the target is not reached: the step belongs to the inclusion branch.
BnbLowFeeAndShort ==
    /\ pc = "bnb_loop"
    /\ b.iteration < args.limit
    /\ args.fee_rate <= args.long_term_fee_rate
    /\ b.available_value + b.value >= args.target
    /\ b.value <= b.upper_bound
    /\ b.value < args.target

\* C28: with fee_rate > long_term_fee_rate, a backtrack taken for the waste
\* bound alone discards only selections whose waste score (the waste of
\* their UTXOs plus the excess over the target) is strictly greater than
\* best_waste at that moment; with fee_rate <= long_term_fee_rate the search
\* never backtracks for the waste bound.
C28_WasteBoundIsSound ==
    [][/\ BnbOnlyWasteFires =>
            /\ Len(b'.index_selection) < Len(b.index_selection) \/ pc' = "done"
            /\ \A S \in BnbAhead :
                  SetEff(S) >= args.target => WasteScore(S) > b.best_waste
       /\ BnbLowFeeAndShort =>
            /\ Len(b'.index_selection) >= Len(b.index_selection)
            /\ exit' # "exhausted"]_vars

\* The waste bound alone is about to cut a subtree that holds a selection
\* inside the window, after a selection was recorded.
C28_Witness ==
    /\ BnbOnlyWasteFires
    /\ b.best_selection # <<>>
    /\ \E S \in BnbAhead : InWindow(S)

\* The pool positions behind a set of indices into coin grinder's sorted
\* candidates.
CgUtxosAt(I) == {At(g.w_utxos, i).u : i \in I}

\* A pass of coin grinder's loop that took a cut (lines 238-245): the
\* candidate it pushed and the tail before it were both deselected, or the
\* search ended on an empty selection.
CgCutStep ==
    /\ pc = "cg_loop"
    /\ \/ pc' = "cg_loop" /\ Len(g'.selection) = Len(g.selection) - 1
       \/ exit' = "exhausted"

\* What a cut of the candidate at next_utxo_index gives up: the selection
\* before the pass, extended by candidates from that index on.
CgCutAway ==
    {T \in SUBSET (g.next_utxo_index..(Len(g.w_utxos) - 1)) : T # {}}
CgExtended(T) == CgUtxosAt(Range(g.selection) \cup T)

\* C29: whenever coin grinder's select_coins takes a cut, every selection
\* that extends the current selection without its tail by candidates at
\* index >= tail is short of target + change_target, or heavier than
\* best_weight, or is the leaf just evaluated; so no cut gives up a feasible
\* selection that is lexicographically better in (weight, amount) than the
\* recorded best.
C29_CutsAreSound ==
    [][CgCutStep =>
         \A T \in CgCutAway :
            /\ \/ SetEff(CgExtended(T)) < args.target + args.change_target
               \/ SetWeight(CgExtended(T)) > g'.best_weight
               \/ T = {g.next_utxo_index} /\ g.next_utxo_index = Len(g.w_utxos) - 1
            /\ ~(/\ Feasible(CgExtended(T))
                  /\ LexLess(SetWeight(CgExtended(T)), SetEff(CgExtended(T)),
                             g'.best_weight, g'.best_amount))]_vars

\* The next pass cuts on weight (lines 211-213) before the last candidate,
\* with a selection on record, and gives up selections that reach the total
\* target.
C29_Witness ==
    /\ pc = "cg_loop"
    /\ g.iteration + 1 < args.limit
    /\ args.target > 0
    /\ g.best_selection # <<>>
    /\ g.next_utxo_index < Len(g.w_utxos) - 1
    /\ g.amount_total + At(g.w_utxos, g.next_utxo_index).ev
          + At(g.lookahead, g.next_utxo_index) >= g.total_target
    /\ g.weight_total + At(g.w_utxos, g.next_utxo_index).weight > g.best_weight
    /\ At(g.w_utxos, g.next_utxo_index).weight
          <= At(g.min_tail_weight, g.next_utxo_index)
    /\ \E T \in CgCutAway :
          SetEff(CgExtended(T)) >= args.target + args.change_target

\* The sums of a field of the projected candidates over a list of indices.
BnbEffSum(index_list) ==
    SumSeq([k \in 1..Len(index_list) |-> At(b.w_utxos, index_list[k]).ev])
BnbWasteSum(index_list) ==
    SumSeq([k \in 1..Len(index_list) |-> At(b.w_utxos, index_list[k]).waste])
CgEffSum(index_list) ==
    SumSeq([k \in 1..Len(index_list) |-> At(g.w_utxos, index_list[k]).ev])
CgWeightSum(index_list) ==
    SumSeq([k \in 1..Len(index_list) |-> At(g.w_utxos, index_list[k]).weight])

BnbTotal == SumSeq([k \in 1..Len(b.w_utxos) |-> b.w_utxos[k].ev])
BnbFromCursor ==
    SumSeq([j \in 1..(Len(b.w_utxos) - b.index) |-> At(b.w_utxos, b.index + j - 1).ev])

C31_AvailableValueIsTheRest ==
    pc = "bnb_loop" =>
        /\ b.index <= Len(b.w_utxos)
        /\ b.available_value = BnbFromCursor
        /\ b.available_value >= 0
        /\ BnbTotal <= AMOUNT_MAX
        /\ b.value + b.available_value <= BnbTotal
        /\ b.index < Len(b.w_utxos) =>
              /\ b.available_value - At(b.w_utxos, b.index).ev >= 0
              /\ b.value + At(b.w_utxos, b.index).ev <= AMOUNT_MAX

\* A step starts after a backtrack gave a skipped candidate back: the cursor
\* is past a candidate that the current selection leaves out, with more to
\* come and a solution on record.
C31_Witness ==
    /\ pc = "bnb_loop"
    /\ b.index_selection # <<>>
    /\ Last(b.index_selection) < b.index - 1
    /\ b.index < Len(b.w_utxos)
    /\ b.best_selection # <<>>
    /\ b.iteration >= 4

\* Lexicographic order on (weight, amount), equality included.
LexLeq(w1, e1, w2, e2) == LexLess(w1, e1, w2, e2) \/ (w1 = w2 /\ e1 = e2)

\* The pass of coin grinder's loop that starts here pushes a candidate and
\* reaches the recording step (lines 218-226) with the new selection.
CgAtRecord ==
    /\ pc = "cg_loop"
    /\ g.next_utxo_index < Len(g.w_utxos)
    /\ LET t == At(g.w_utxos, g.next_utxo_index) IN
       /\ g.amount_total + t.ev + At(g.lookahead, g.next_utxo_index) >= g.total_target
       /\ g.weight_total + t.weight <= g.best_weight
       /\ g.amount_total + t.ev >= g.total_target

\* C32: across a search best_waste never increases and coin grinder's pair
\* (best_weight, best_amount) never increases lexicographically; a solution
\* that reaches the recording step leaves a best that scores no worse than
\* it, and a recorded best selection has the score on record; so the
\* recorded best scores no worse than any solution recorded or refused so
\* far.
C32_BestNeverWorsens ==
    [][/\ pc = "bnb_loop" =>
            /\ b'.best_waste <= b.best_waste
            /\ (BnbAtHit /\ exit' # "arith") =>
                  b'.best_waste <= b.current_waste + (b.value - args.target)
            /\ b'.best_selection # <<>> =>
                  b'.best_waste = BnbWasteSum(b'.best_selection)
                                    + (BnbEffSum(b'.best_selection) - args.target)
       /\ pc = "cg_loop" =>
            /\ LexLeq(g'.best_weight, g'.best_amount, g.best_weight, g.best_amount)
            /\ CgAtRecord =>
                  LexLeq(g'.best_weight, g'.best_amount,
                         g.weight_total + At(g.w_utxos, g.next_utxo_index).weight,
                         g.amount_total + At(g.w_utxos, g.next_utxo_index).ev)
            /\ g'.best_selection # <<>> =>
                  /\ g'.best_weight = CgWeightSum(g'.best_selection)
                  /\ g'.best_amount = CgEffSum(g'.best_selection)]_vars

\* A solution reaches the recording step of select_coins_bnb with a score
\* above the one on record.
C32_Witness ==
    /\ BnbAtHit
    /\ b.best_selection # <<>>
    /\ b.current_waste + (b.value - args.target) > b.best_waste

\* C33: a solution scored by select_coins_bnb replaces the recorded best
\* whenever its score is at most best_waste, and only then; so of the
\* solutions that tie on the least score the one visited last is returned.
\* For 1, 2, 3 and 4 cBTC of equal weight, target 5, no fees and no cost of
\* change the result is [3, 2], not [4, 1], after 12 iterations.
C33_LastTieWins ==
    [][/\ (BnbAtHit /\ exit' # "arith") =>
            IF b.current_waste + (b.value - args.target) <= b.best_waste
            THEN b'.best_selection = b.index_selection
            ELSE b'.best_selection = b.best_selection
       /\ (pc = "bnb_loop" /\ ~BnbAtHit) => b'.best_selection = b.best_selection
       /\ (pc = "bnb_loop" /\ alg = "bnb" /\ exit' \in {"exhausted", "limit"}) =>
            ret' = IF b'.best_selection = <<>> THEN RetNone
                   ELSE RetSome(b'.iteration, Refs(b'.best_selection, b'.w_utxos))
       /\ (pc = "bnb_loop" /\ pc' = "done" /\ args \in BnbExampleArgs) =>
            ret' = RetSome(12, <<3, 2>>)]_vars

\* The example call has returned.
C33_Witness ==
    /\ BnbDone
    /\ args \in BnbExampleArgs
    /\ ret.kind = "Some"

\* ------------------------------------------------------------------------
\* Termination
\* ------------------------------------------------------------------------
\* The calls whose termination is checked: pools of candidates worth 2, 3
\* and 6 sat, targets 2 and 3, no long-term fee.
LiveUtxos == {Utxo(2, 200), Utxo(3, 200), Utxo(6, 1000)}
LiveCall ==
    /\ Range(args.weighted_utxos) \subseteq LiveUtxos
    /\ args.target \in {2, 3}
    /\ args.long_term_fee_rate = 0
LiveInit == Init /\ LiveCall

\* The functions are sequential code: a call that can take a step takes it.
\* This is weak fairness of Next, WF_vars(Next), written out: a step is
\* possible at every position but "done" (the start actions have no guard
\* but the position, and the loop actions split on the cap), so
\* ENABLED <<Next>>_vars is pc # "done".
Progress == []<><<Next>>_vars \/ []<>(pc = "done")
LiveSpec == LiveInit /\ [][Next]_vars /\ Progress

\* The place of select_coins_bnb's search in its tree, as a number in base
\* 3: a candidate before the cursor counts 1 when it is in index_selection
\* and 2 when it is left out, a candidate from the cursor on counts 0.
BnbDigit(l, i) ==
    IF i >= l.index THEN 0
    ELSE IF i \in Range(l.index_selection) THEN 1 ELSE 2
BnbRank(l) ==
    SumSeq([j \in 1..Len(l.w_utxos) |-> BnbDigit(l, j - 1) * 3 ^ (Len(l.w_utxos) - j)])
BnbInSearch == pc \in {"bnb_start", "bnb_loop"}

\* C34: every call of select_coins_bnb returns.  The search never comes back
\* to a pair (index_selection, index): every step moves it forward in the
\* order of the tree, which has finitely many places, so that without the
\* iteration cap the search ends at a backtrack with an empty
\* index_selection; a search that the cap does not stop ends that way.
C34_BnbTerminates ==
    /\ [][(pc = "bnb_loop" /\ pc' = "bnb_loop") => BnbRank(b') > BnbRank(b)]_vars
    /\ [](pc = "bnb_loop" => BnbRank(b) < 3 ^ Len(b.w_utxos))
    /\ []((BnbDone /\ exit = "limit") => b.iteration >= args.limit)
    /\ BnbInSearch ~> ~BnbInSearch

\* A search longer than the scaled cap ended at a backtrack with an empty
\* index_selection.
C34_Witness ==
    /\ BnbDone
    /\ exit = "exhausted"
    /\ b.iteration > ScaledIterationLimit
    /\ b.best_selection # <<>>

\* The place of coin grinder's search in its tree, in base 3 as above: the
\* selection that the next pass includes is selection with next_utxo_index
\* appended, and it determines the pair (selection, next_utxo_index).
CgDigit(l, i) ==
    IF i >= l.next_utxo_index THEN 0
    ELSE IF i \in Range(l.selection) THEN 1 ELSE 2
CgRank(l) ==
    SumSeq([j \in 1..Len(l.w_utxos) |-> CgDigit(l, j - 1) * 3 ^ (Len(l.w_utxos) - j)])
CgInSearch == pc \in {"cg_start", "cg_loop"}
CgSearching == alg = "cg" /\ pc = "cg_loop" /\ g.w_utxos # <<>>

\* C35: every call of coin grinder's select_coins on a non-empty projection
\* returns.  Every pass moves the search forward in the order of the tree,
\* so no selection is included twice, and the tree has finitely many
\* places, so that without the iteration cap the search ends at a shift
\* with an empty selection; a search that the cap does not stop ends that
\* way.
C35_CgTerminates ==
    /\ [][(pc = "cg_loop" /\ pc' = "cg_loop") => CgRank(g') > CgRank(g)]_vars
    /\ [](CgSearching => CgRank(g) < 3 ^ Len(g.w_utxos))
    /\ []((CgDone /\ exit = "limit") => g.iteration >= args.limit)
    /\ CgInSearch ~> ~CgInSearch
    /\ CgSearching ~> (CgDone /\ exit \in {"exhausted", "limit"})

\* A search longer than the scaled cap ended at a shift with an empty
\* selection.
C35_Witness ==
    /\ CgDone
    /\ exit = "exhausted"
    /\ g.iteration > ScaledIterationLimit
    /\ g.best_selection # <<>>

\* ------------------------------------------------------------------------
\* Coin grinder: the loop's reads and subtractions
\* ------------------------------------------------------------------------
\* C36: once select_coins (coin grinder) is past its checks before the
\* search, every pass reads w_utxos[next_utxo_index] inside the projection,
\* deselects only from a non-empty selection, and never takes amount_total
\* or weight_total below zero: no pass panics.
C36_CgLoopIsSafe ==
    pc = "cg_loop" =>
        /\ g.next_utxo_index < Len(g.w_utxos)
        /\ CgPass(g, args.limit, FALSE).k # "panic"

\* ------------------------------------------------------------------------
\* Coin grinder: the example of the loop's comments
\* ------------------------------------------------------------------------
\* C37: for the candidates 10/8, 7/4, 5/4 and 4/8 (value / weight), target
\* 11, change_target 0, max_selection_weight 100 and no fee, coin grinder's
\* select_coins returns the candidates worth 7 and 5, in that order, after
\* 8 iterations.
C37_CgExample ==
    (CgDone /\ args \in CgExampleArgs) => ret = RetSome(8, <<2, 3>>)

C37_Witness ==
    /\ CgDone
    /\ args \in CgExampleArgs
    /\ exit = "exhausted"

\* ------------------------------------------------------------------------
\* Coin grinder: the two lookup arrays
\* ------------------------------------------------------------------------
CgEffAfter(i) == SumSeq([j \in 1..(Len(g.w_utxos) - i) |-> g.w_utxos[i + j].ev])
CgEffUpTo(i) == SumSeq([j \in 1..i |-> g.w_utxos[j].ev])
CgWeightsAfter(i) == {g.w_utxos[j].weight : j \in (i + 1)..Len(g.w_utxos)}
CgSorted == \A i \in 1..(Len(g.w_utxos) - 1) : g.w_utxos[i].ev >= g.w_utxos[i + 1].ev

\* C38: for the projection sorted by descending effective value,
\* lookahead has the projection's length and lookahead[i] is the sum of the
\* effective values after position i: the last entry is 0, and lookahead[i]
\* plus the effective values up to i is available_value.
C38_LookaheadIsTheRest ==
    /\ CgSorted
    /\ Len(g.lookahead) = Len(g.w_utxos)
    /\ \A i \in 1..Len(g.lookahead) :
          /\ g.lookahead[i] = CgEffAfter(i)
          /\ g.lookahead[i] + CgEffUpTo(i) = g.available_value
    /\ g.lookahead # <<>> => Last(g.lookahead) = 0

\* The array of the test lookahead (lines 328-343), in a search.
C38_Witness ==
    /\ pc = "cg_loop"
    /\ args \in CgExampleArgs
    /\ g.lookahead = <<16, 9, 4, 0>>

\* C39: min_tail_weight has the projection's length, min_tail_weight[i] is
\* the least weight after position i, and the last entry is Weight::MAX.
C39_MinTailWeightIsTheLeast ==
    /\ Len(g.min_tail_weight) = Len(g.w_utxos)
    /\ \A i \in 1..(Len(g.min_tail_weight) - 1) :
          /\ g.min_tail_weight[i] \in CgWeightsAfter(i)
          /\ \A x \in CgWeightsAfter(i) : g.min_tail_weight[i] <= x
    /\ g.min_tail_weight # <<>> => Last(g.min_tail_weight) = WEIGHT_MAX

\* Three candidates, the least weight after the first one being the third's.
C39_Witness ==
    /\ pc = "cg_loop"
    /\ Len(g.w_utxos) = 3
    /\ g.min_tail_weight[1] = g.w_utxos[3].weight
    /\ g.min_tail_weight[1] < g.w_utxos[2].weight
    /\ g.min_tail_weight[2] = g.w_utxos[3].weight

====
